---------------------------- MODULE Spec2Model ----------------------------
(***************************************************************************)
(* create-users2.py: a batch user-provisioning script.  main() asks once   *)
(* on /dev/tty whether to run in dry-run mode, then reads account records  *)
(* from standard input, one per line, and for each valid record prints     *)
(* and (unless dry-run) executes a useradd, a passwd and one adduser       *)
(* command per group.                                                      *)
(*                                                                         *)
(* Text is modelled as a sequence of tokens.  Everything that comes from   *)
(* the input (a line, a field, a terminal response) is a sequence of       *)
(* one-character strings; a literal of the program's format strings is a   *)
(* single token.  The console and the operating system are one event log:  *)
(* a "print" event carries the text written to standard output, a          *)
(* "system" event carries the command string handed to os.system().        *)
(***************************************************************************)
EXTENDS Naturals, Sequences, FiniteSets

VARIABLES
    pc,            \* position of main(): AwaitingMode, Processing, Done, Fatal
    response,      \* the line tty.readline() returned (line 32)
    mode,          \* the variable mode (line 32)
    dry_run,       \* the variable dry_run (line 34)
    consumed,      \* the lines the loop of line 36 has read from sys.stdin
    log,           \* print and os.system events, in program order
    lineStart,     \* length of log when the last line read began processing
    lastFailed,    \* index of the first command of the last line that
                   \* returned a nonzero status (0: none did)
    failedEarlier  \* some command of an earlier line returned nonzero

vars == <<pc, response, mode, dry_run, consumed, log, lineStart,
          lastFailed, failedEarlier>>

-----------------------------------------------------------------------------
(* Bounds of the model *)

\* longest input stream, in lines
MaxLines == 2
\* most entries in the group field of a generated record
MaxGroups == 2
\* longest terminal content, in characters
MaxResp == 3

-----------------------------------------------------------------------------
(* Sequence helpers *)

RECURSIVE Flatten(_)
Flatten(ss) == IF ss = <<>> THEN <<>> ELSE Head(ss) \o Flatten(Tail(ss))

RECURSIVE JoinWith(_, _)
JoinWith(ss, sep) ==
    IF ss = <<>> THEN <<>>
    ELSE IF Len(ss) = 1 THEN ss[1]
    ELSE ss[1] \o <<sep>> \o JoinWith(Tail(ss), sep)

Front(s) == SubSeq(s, 1, Len(s) - 1)

-----------------------------------------------------------------------------
(* Python string methods used by main() *)

\* the characters str.strip() removes, as far as the model's alphabet goes
Whitespace == {" ", "\t", "\n", "\r", "\f"}

RECURSIVE LStrip(_)
LStrip(s) ==
    IF s # <<>> /\ Head(s) \in Whitespace THEN LStrip(Tail(s)) ELSE s

RECURSIVE RStrip(_)
RStrip(s) ==
    IF s # <<>> /\ s[Len(s)] \in Whitespace THEN RStrip(Front(s)) ELSE s

\* str.strip()
Strip(s) == RStrip(LStrip(s))

\* str.upper() on one character
UpperChar(c) ==
    CASE c = "y" -> "Y"
      [] c = "n" -> "N"
      [] c = "e" -> "E"
      [] c = "s" -> "S"
      [] OTHER -> c

\* a comparison that forgets to fold case
UpperMissing(s) == s

\* str.upper()
Upper(s) == [i \in 1..Len(s) |-> UpperChar(s[i])]

\* the echoed line trimmed of all surrounding whitespace, not only of its
\* newline
RStripAll(s) == Strip(s)

\* str.rstrip("\n")
RECURSIVE RStripNL(_)
RStripNL(s) ==
    IF s # <<>> /\ s[Len(s)] = "\n" THEN RStripNL(Front(s)) ELSE s

\* str.split(sep): the fields between the separators, at least one
RECURSIVE Split(_, _)
Split(s, sep) ==
    IF \E i \in 1..Len(s) : s[i] = sep
    THEN LET i == CHOOSE j \in 1..Len(s) :
                      s[j] = sep /\ \A k \in 1..(j - 1) : s[k] # sep
         IN  <<SubSeq(s, 1, i - 1)>> \o Split(SubSeq(s, i + 1, Len(s)), sep)
    ELSE <<s>>

\* file.readline() on a stream holding t: through the first newline, or
\* everything (the empty string at end-of-file)
ReadLine(t) ==
    IF \E i \in 1..Len(t) : t[i] = "\n"
    THEN LET i == CHOOSE j \in 1..Len(t) :
                      t[j] = "\n" /\ \A k \in 1..(j - 1) : t[k] # "\n"
         IN  SubSeq(t, 1, i)
    ELSE t

\* no comment check at all
IsCommentNever(line) == FALSE

\* the comment check made on the trimmed line
IsCommentTrimmed(line) == Strip(line) # <<>> /\ Strip(line)[1] = "#"

\* re.match("^#", line)
IsComment(line) == line # <<>> /\ line[1] = "#"

-----------------------------------------------------------------------------
(* Console and operating system events *)

\* print(text): the text and the newline print appends
PrintLine(text) == [kind |-> "print", text |-> text \o <<"\n">>]

\* print(text, end='')
PrintNoEnd(text) == [kind |-> "print", text |-> text]

\* os.system(cmd)
System(cmd) == [kind |-> "system", text |-> cmd]

Prompt == PrintNoEnd(<<"Run in dry-run mode? (Y/N): ">>)

-----------------------------------------------------------------------------
(* The body of the loop over sys.stdin (lines 36-116) *)

\* line 64
Gecos(fields) == fields[4] \o <<" ">> \o fields[3] \o <<",,,">>

\* line 67
Groups(fields) == Split(fields[5], ",")

\* line 73
CreateCmd(fields) ==
    <<"/usr/sbin/useradd -m -c '">> \o Gecos(fields) \o <<"' ">> \o fields[1]

\* lines 89-93; the format string holds a newline character
PasswdCmd(fields) ==
    <<"/bin/echo -ne '">> \o fields[2] \o <<"\n">> \o fields[2]
        \o <<"' | /usr/bin/sudo /usr/bin/passwd ">> \o fields[1]

\* line 111
GroupCmd(username, group) ==
    <<"/usr/sbin/adduser ">> \o username \o <<" ">> \o group

DryRunMarker == "DRY-RUN: would run: "

\* lines 77-83
EmitCreate(cmd, dry) ==
    IF dry THEN <<PrintLine(<<DryRunMarker>> \o cmd)>>
    ELSE <<PrintLine(cmd), System(cmd)>>

\* the live branch prints the command and does not run it
EmitPasswdPrintOnly(cmd, dry) ==
    IF dry THEN <<PrintLine(<<DryRunMarker>> \o cmd)>>
    ELSE <<PrintLine(cmd)>>

\* lines 97-101
EmitPasswd(cmd, dry) ==
    IF dry THEN <<PrintLine(<<DryRunMarker>> \o cmd)>>
    ELSE <<PrintLine(cmd), System(cmd)>>

\* the group command run without looking at dry_run
EmitGroupAlways(cmd, dry) == <<PrintLine(cmd), System(cmd)>>

\* lines 112-116
EmitGroup(cmd, dry) ==
    IF dry THEN <<PrintLine(<<DryRunMarker>> \o cmd)>>
    ELSE <<PrintLine(cmd), System(cmd)>>

\* the loop over groups without the test for "-"
RECURSIVE GroupEventsNoSkip(_, _, _)
GroupEventsNoSkip(username, groups, dry) ==
    IF groups = <<>> THEN <<>>
    ELSE LET group == Head(groups)
         IN  <<PrintLine(<<"==> Assigning ">> \o username \o <<" to the ">>
                         \o group \o <<" group...">>)>>
             \o EmitGroup(GroupCmd(username, group), dry)
             \o GroupEventsNoSkip(username, Tail(groups), dry)

\* lines 107-116: the loop over groups
RECURSIVE GroupEvents(_, _, _)
GroupEvents(username, groups, dry) ==
    IF groups = <<>> THEN <<>>
    ELSE LET group == Head(groups)
         IN  (IF group # <<"-">>
              THEN <<PrintLine(<<"==> Assigning ">> \o username \o <<" to the ">>
                           \o group \o <<" group...">>)>>
                   \o EmitGroup(GroupCmd(username, group), dry)
              ELSE <<>>)
             \o GroupEvents(username, Tail(groups), dry)

\* the record's steps without the password announcement
RecordEventsUnannounced(fields, dry) ==
    LET username == fields[1]
    IN  <<PrintLine(<<"==> Creating account for ">> \o username \o <<"...">>)>>
        \o EmitCreate(CreateCmd(fields), dry)
        \o EmitPasswd(PasswdCmd(fields), dry)
        \o GroupEvents(username, Groups(fields), dry)

\* lines 62-116: what is done for a line that passed both checks
RecordEvents(fields, dry) ==
    LET username == fields[1]
    IN  <<PrintLine(<<"==> Creating account for ">> \o username \o <<"...">>)>>
        \o EmitCreate(CreateCmd(fields), dry)
        \o <<PrintLine(<<"==> Setting the password for ">> \o username \o <<"...">>)>>
        \o EmitPasswd(PasswdCmd(fields), dry)
        \o GroupEvents(username, Groups(fields), dry)

\* lines 38-116: one iteration of the loop
LineEvents(line, dry) ==
    LET raw_line == RStripNL(line)
        fields   == Split(Strip(line), ":")
    IN  IF IsComment(line)
        THEN IF dry THEN <<PrintLine(<<"SKIP (comment line): ">> \o raw_line)>>
             ELSE <<>>
        ELSE IF Len(fields) # 5
        THEN IF dry
             THEN <<PrintLine(<<"ERROR (dry-run): Not enough fields in line: ">>
                          \o raw_line)>>
             ELSE <<>>
        ELSE RecordEvents(fields, dry)

\* the command strings handed to os.system() in a sequence of events
Executed(events) ==
    LET sys == SelectSeq(events, LAMBDA e : e.kind = "system")
    IN  [i \in 1..Len(sys) |-> sys[i].text]

\* exit statuses of os.system(): 0 is success, 1 stands for any failure
ExitStatuses == {0, 1}

\* index of the first nonzero status, 0 when there is none
FirstFailed(sts) ==
    IF \E i \in DOMAIN sts : sts[i] # 0
    THEN CHOOSE i \in DOMAIN sts : sts[i] # 0 /\ \A j \in 1..(i - 1) : sts[j] = 0
    ELSE 0

-----------------------------------------------------------------------------
(* Inputs *)

User      == <<"u">>
Password  == <<"p">>
LastName  == <<"L">>
FirstName == <<"F">>

\* the group name used at each position of a generated group field
GroupNames == <<"g", "h", "k", "m">>

\* group lists of 1..MaxGroups entries: entry i is "-" or the i-th name
GroupLists ==
    UNION { { gl \in [1..n -> {<<"-">>, <<"g">>, <<"h">>, <<"k">>, <<"m">>}] :
                \A i \in 1..n : gl[i] \in {<<"-">>, <<GroupNames[i]>>} } :
            n \in 1..MaxGroups }

Record(gl) ==
    JoinWith(<<User, Password, LastName, FirstName, JoinWith(gl, ",")>>, ":")

OneGroup == Record(<<<<"g">>>>)
TwoFields == JoinWith(<<User, Password>>, ":")

\* line bodies, without the terminating newline
Lines ==
    { Record(gl) : gl \in GroupLists }
    \cup { JoinWith(SubSeq(<<User, Password, LastName, FirstName>>, 1, k), ":") :
           k \in {0, 2, 4} }
    \cup { OneGroup \o <<":", "x">>,          \* six fields
           OneGroup \o <<" ">>,               \* trailing blank
           Record(<<<<>>>>) }                 \* empty group field
    \cup { pre \o OneGroup : pre \in {<<"#">>, <<" ", "#">>, <<"\t", "#">>, <<" ">>} }
    \cup { <<"#">> \o TwoFields, <<" ">> \o TwoFields }

\* the lines of the streams the mode-selection specification reads
ScenarioLines == { OneGroup, <<"#">> \o TwoFields }

\* terminal contents of the main specification
MainTty == { <<" ", "y", " ", "\n">>, <<"N", "\n">> }

TtyAlphabet == {"y", "Y", "n", "e", "s", " ", "\n"}

\* every terminal content of at most MaxResp characters
AllTty == UNION { [1..n -> TtyAlphabet] : n \in 0..MaxResp }

-----------------------------------------------------------------------------
(* main() *)

Init ==
    /\ pc = "AwaitingMode"
    /\ response = <<>>
    /\ mode = <<>>
    /\ dry_run = FALSE
    /\ consumed = <<>>
    /\ log = <<>>
    /\ lineStart = 0
    /\ lastFailed = 0
    /\ failedEarlier = FALSE

\* the answer read from standard input: it takes the stream's first line
SelectModeFromStdin(T) ==
    /\ pc = "AwaitingMode"
    /\ \E t \in T :
         /\ response' = ReadLine(t)
         /\ mode' = Upper(Strip(ReadLine(t)))
         /\ dry_run' = (Upper(Strip(ReadLine(t))) = <<"Y">>)
         /\ consumed' = Append(consumed, ReadLine(t))
    /\ log' = Append(log, Prompt)
    /\ pc' = "Processing"
    /\ UNCHANGED <<lineStart, lastFailed, failedEarlier>>

\* lines 30-34, with /dev/tty holding one of the contents in T
SelectMode(T) ==
    /\ pc = "AwaitingMode"
    /\ \E t \in T :
         /\ response' = ReadLine(t)
         /\ mode' = Upper(Strip(ReadLine(t)))
         /\ dry_run' = (Upper(Strip(ReadLine(t))) = <<"Y">>)
    /\ log' = Append(log, Prompt)
    /\ pc' = "Processing"
    /\ UNCHANGED <<consumed, lineStart, lastFailed, failedEarlier>>

\* line 30 when there is no controlling terminal: open() raises OSError
NoTerminal ==
    /\ pc = "AwaitingMode"
    /\ pc' = "Fatal"
    /\ UNCHANGED <<response, mode, dry_run, consumed, log, lineStart,
                   lastFailed, failedEarlier>>

\* the stream can still deliver a line: the last one read ended in a newline
MoreInput ==
    IF consumed = <<>> THEN TRUE
    ELSE LET last == consumed[Len(consumed)] IN last[Len(last)] = "\n"

\* the events up to and including the k-th os.system() call
KeepThrough(events, k) ==
    LET idx == CHOOSE i \in 1..Len(events) :
                   /\ events[i].kind = "system"
                   /\ Cardinality({j \in 1..i : events[j].kind = "system"}) = k
    IN  SubSeq(events, 1, idx)

\* an iteration that gives up on the line at the first failing command
ProcessLineStopOnFailure(L) ==
    /\ pc = "Processing"
    /\ Len(consumed) < MaxLines
    /\ MoreInput
    /\ \E body \in L, nl \in BOOLEAN :
         LET line   == IF nl THEN body \o <<"\n">> ELSE body
             events == LineEvents(line, dry_run)
         IN  /\ line # <<>>
             /\ consumed' = Append(consumed, line)
             /\ lineStart' = Len(log)
             /\ \E sts \in [1..Len(Executed(events)) -> ExitStatuses] :
                  /\ lastFailed' = FirstFailed(sts)
                  /\ failedEarlier' = (failedEarlier \/ lastFailed # 0)
                  /\ log' = log \o (IF FirstFailed(sts) = 0 THEN events
                                     ELSE KeepThrough(events, FirstFailed(sts)))
    /\ UNCHANGED <<pc, response, mode, dry_run>>

\* lines 36-116: one iteration, on a line whose body is drawn from L; each
\* os.system() call returns some status, which main() discards
ProcessLine(L) ==
    /\ pc = "Processing"
    /\ Len(consumed) < MaxLines
    /\ MoreInput
    /\ \E body \in L, nl \in BOOLEAN :
         LET line   == IF nl THEN body \o <<"\n">> ELSE body
             events == LineEvents(line, dry_run)
         IN  /\ line # <<>>
             /\ consumed' = Append(consumed, line)
             /\ lineStart' = Len(log)
             /\ log' = log \o events
             /\ \E sts \in [1..Len(Executed(events)) -> ExitStatuses] :
                  /\ lastFailed' = FirstFailed(sts)
                  /\ failedEarlier' = (failedEarlier \/ lastFailed # 0)
    /\ UNCHANGED <<pc, response, mode, dry_run>>

\* line 36: sys.stdin is exhausted, main() returns
EndOfInput ==
    /\ pc = "Processing"
    /\ pc' = "Done"
    /\ UNCHANGED <<response, mode, dry_run, consumed, log, lineStart,
                   lastFailed, failedEarlier>>

Next ==
    \/ SelectMode(MainTty)
    \/ NoTerminal
    \/ ProcessLine(Lines)
    \/ EndOfInput

Spec == Init /\ [][Next]_vars

\* the same program with every terminal content and the scenario lines
NextMode ==
    \/ SelectMode(AllTty)
    \/ NoTerminal
    \/ ProcessLine(ScenarioLines)
    \/ EndOfInput

SpecMode == Init /\ [][NextMode]_vars

-----------------------------------------------------------------------------
(* Vocabulary of the properties *)

HasLine == consumed # <<>>

\* the line read last, and the events its iteration added to the log
LastLine == consumed[Len(consumed)]
LineLog == SubSeq(log, lineStart + 1, Len(log))

StartsWithHash(line) == line # <<>> /\ line[1] = "#"

\* the colon-delimited fields of the whitespace-trimmed line
TrimmedFields(line) == Split(Strip(line), ":")

WellFormed(line) == ~StartsWithHash(line) /\ Len(TrimmedFields(line)) = 5

\* the line without its terminating newline
WithoutNewline(line) ==
    IF line # <<>> /\ line[Len(line)] = "\n" THEN Front(line) ELSE line

\* the entries of a group list other than "-", in order
NonDash(groups) == SelectSeq(groups, LAMBDA g : g # <<"-">>)

DashCount(groups) == Cardinality({i \in 1..Len(groups) : groups[i] = <<"-">>})

IsWouldRun(e) ==
    e.kind = "print" /\ e.text # <<>> /\ e.text[1] = "DRY-RUN: would run: "

\* an action: a command described as a would-run command, or executed
IsAction(e) == e.kind = "system" \/ IsWouldRun(e)

ActionCmd(e) ==
    IF e.kind = "system" THEN e.text ELSE SubSeq(e.text, 2, Len(e.text) - 1)

Actions(events) ==
    LET acts == SelectSeq(events, IsAction)
    IN  [i \in 1..Len(acts) |-> ActionCmd(acts[i])]

\* the commands printed after the would-run marker
WouldRunCmds(events) ==
    LET ws == SelectSeq(events, IsWouldRun)
    IN  [i \in 1..Len(ws) |-> ActionCmd(ws[i])]

\* the action group of a command, by the program it invokes
ActKind(cmd) ==
    CASE cmd[1] = "/usr/sbin/useradd -m -c '" -> "create"
      [] cmd[1] = "/bin/echo -ne '" -> "passwd"
      [] cmd[1] = "/usr/sbin/adduser " -> "group"
      [] OTHER -> "none"

\* the action group an announcement line announces
AnnKind(e) ==
    IF e.kind # "print" \/ e.text = <<>> THEN "none"
    ELSE CASE e.text[1] = "==> Creating account for " -> "create"
           [] e.text[1] = "==> Setting the password for " -> "passwd"
           [] e.text[1] = "==> Assigning " -> "group"
           [] OTHER -> "none"

IsAnnouncement(e) == AnnKind(e) # "none"

\* the announcement names the user: the name follows the opening words
NamesUser(e, u) == SubSeq(e.text, 2, 1 + Len(u)) = u

\* the command ends in the target s
EndsWith(cmd, s) ==
    Len(cmd) >= Len(s) /\ SubSeq(cmd, Len(cmd) - Len(s) + 1, Len(cmd)) = s

PromptCount(events) ==
    Cardinality({i \in 1..Len(events) : events[i] = Prompt})

\* the whole console output of a dry run over the given lines
DryRunOutput(lines) ==
    <<Prompt>> \o Flatten([i \in 1..Len(lines) |-> LineEvents(lines[i], TRUE)])

\* the commands a live run executes for the given lines
LiveCmds(lines) ==
    Flatten([i \in 1..Len(lines) |-> Executed(LineEvents(lines[i], FALSE))])

SomeRejected == \E i \in 1..Len(consumed) : ~WellFormed(consumed[i])

-----------------------------------------------------------------------------
(* Properties *)

\* C1: in a dry run no external command is ever executed, whatever lines
\* have been read.
DryRunExecutesNothing ==
    dry_run => \A i \in 1..Len(log) : log[i].kind # "system"

\* a finished dry run over a record with two groups and a rejected line
DryRunWitness ==
    /\ pc = "Done" /\ dry_run /\ Len(consumed) = 2
    /\ SomeRejected
    /\ \E i \in 1..Len(consumed) :
         WellFormed(consumed[i]) /\ Len(NonDash(Split(TrimmedFields(consumed[i])[5], ","))) = 2
    /\ Len(WouldRunCmds(log)) = 4

\* C2: the commands a live run executes are, in order, the commands a dry
\* run over the same lines prints after the would-run marker, and each
\* executed command is the string printed immediately before it.
DescriptionEffectParity ==
    ~dry_run =>
        /\ Executed(log) = WouldRunCmds(DryRunOutput(consumed))
        /\ \A i \in 1..Len(log) :
             log[i].kind = "system" =>
                 /\ i > 1
                 /\ log[i - 1] = [kind |-> "print", text |-> log[i].text \o <<"\n">>]

ParityWitness ==
    /\ pc = "Done" /\ ~dry_run /\ Len(consumed) = 2
    /\ SomeRejected
    /\ Len(Executed(log)) = 4

\* C3: a valid record gets one account-creation action, then one password
\* action, then one group action per entry of the comma-split fifth field
\* that is not "-", in the order of the entries, all for its username.
RecordActionsInOrder ==
    (HasLine /\ WellFormed(LastLine)) =>
        LET f      == TrimmedFields(LastLine)
            u      == f[1]
            groups == Split(f[5], ",")
            acts   == Actions(LineLog)
        IN  /\ Len(acts) = 2 + Len(groups) - DashCount(groups)
            /\ ActKind(acts[1]) = "create" /\ EndsWith(acts[1], u)
            /\ ActKind(acts[2]) = "passwd" /\ EndsWith(acts[2], u)
            /\ \A i \in 1..(Len(acts) - 2) :
                 acts[2 + i] = <<"/usr/sbin/adduser ">> \o u \o <<" ">>
                                   \o NonDash(groups)[i]

\* a record whose group field is "-,h": one group action, and a record
\* whose group field is "-": none
RecordWitness ==
    /\ Len(consumed) = 2
    /\ consumed[1] = Record(<<<<"-">>>>) \o <<"\n">>
    /\ Len(Actions(SubSeq(log, 1, lineStart))) = 2
    /\ LastLine = Record(<<<<"-">>, <<"h">>>>) \o <<"\n">>
    /\ Len(Actions(LineLog)) = 3

\* C4: a line that begins with '#', or whose trimmed text does not split
\* into exactly 5 fields, emits no action in either mode.
NoActionForRejected ==
    (HasLine /\ (StartsWithHash(LastLine) \/ Len(TrimmedFields(LastLine)) # 5)) =>
        Actions(LineLog) = <<>>

\* the empty line, then a '#' line with five fields, in a live run
RejectedWitness ==
    /\ ~dry_run /\ Len(consumed) = 2
    /\ consumed[1] = <<"\n">>
    /\ LastLine = <<"#">> \o OneGroup \o <<"\n">>
    /\ Len(TrimmedFields(LastLine)) = 5
    /\ log = <<Prompt>>

\* C5 as stated: a line whose first non-whitespace character is '#' emits
\* no action.
CommentAfterBlanks ==
    (HasLine /\ StartsWithHash(LStrip(LastLine))) => Actions(LineLog) = <<>>

\* C5 amended: a line whose first character is '#' emits no action and no
\* announcement; a line with '#' after leading blanks is not a comment, and
\* with 5 fields it is processed as a record whose username begins with '#'.
CommentIsFirstCharacter ==
    HasLine =>
        /\ StartsWithHash(LastLine) =>
             /\ Actions(LineLog) = <<>>
             /\ \A i \in 1..Len(LineLog) : ~IsAnnouncement(LineLog[i])
        /\ ( /\ ~StartsWithHash(LastLine)
             /\ StartsWithHash(LStrip(LastLine))
             /\ Len(TrimmedFields(LastLine)) = 5 ) =>
             /\ Len(Actions(LineLog)) >= 2
             /\ EndsWith(Actions(LineLog)[1], TrimmedFields(LastLine)[1])
             /\ TrimmedFields(LastLine)[1][1] = "#"

\* a '#' line with five fields is skipped, the same line behind a tab is
\* processed
CommentWitness ==
    /\ Len(consumed) = 2
    /\ consumed[1] = <<"#">> \o OneGroup \o <<"\n">>
    /\ LastLine = <<"\t", "#">> \o OneGroup \o <<"\n">>
    /\ Len(Actions(log)) = 3

\* C6: the prompt is issued exactly once, before any line is read and also
\* when the stream is empty; selecting the mode reads nothing from the
\* record stream; once selected, the mode never changes.
ModeSelectedOnceUpFront ==
    /\ [](PromptCount(log) <= 1)
    /\ []((HasLine \/ pc \in {"Processing", "Done"}) =>
              (PromptCount(log) = 1 /\ log[1] = Prompt))
    /\ [][pc = "AwaitingMode" => consumed' = consumed]_vars
    /\ [][pc # "AwaitingMode" => (dry_run' = dry_run /\ mode' = mode)]_vars

\* a finished dry run of two lines, both handled as dry-run lines
ModeWitness ==
    /\ pc = "Done" /\ dry_run /\ Len(consumed) = 2
    /\ PromptCount(log) = 1
    /\ ~WellFormed(consumed[1]) /\ WellFormed(consumed[2])
    /\ \A i \in 1..Len(log) : log[i].kind = "print"
    /\ Len(log) > 6

\* C7: the mode is DryRun exactly when the response is one 'y' or 'Y'
\* surrounded by nothing but whitespace.
DryRunIffY ==
    pc \in {"Processing", "Done"} =>
        (dry_run <=>
            \E i \in 1..Len(response) :
                /\ response[i] \in {"y", "Y"}
                /\ \A j \in 1..Len(response) : j # i => response[j] \in Whitespace)

\* a lower-case y behind a blank selects DryRun
DryRunIffYWitness ==
    /\ pc = "Processing" /\ dry_run
    /\ response = <<" ", "y", "\n">>

\* C8: in a dry run a comment line or a malformed line yields exactly one
\* diagnostic line, SKIP for a comment and ERROR for a wrong field count,
\* that echoes the raw line; in a live run it yields nothing; either way
\* the loop goes on.
DiagnosticsOnlyInDryRun ==
    (HasLine /\ ~WellFormed(LastLine)) =>
        /\ dry_run =>
             /\ Len(LineLog) = 1
             /\ LineLog[1].kind = "print"
             /\ LineLog[1].text =
                    <<IF StartsWithHash(LastLine) THEN "SKIP (comment line): "
                      ELSE "ERROR (dry-run): Not enough fields in line: ">>
                    \o WithoutNewline(LastLine) \o <<"\n">>
             /\ Cardinality({i \in 1..Len(LineLog[1].text) :
                                 LineLog[1].text[i] = "\n"}) = 1
        /\ ~dry_run => LineLog = <<>>
        /\ pc \in {"Processing", "Done"}

\* a malformed line with a leading blank is reported, and the record that
\* follows it is processed
DiagnosticsWitness ==
    /\ dry_run /\ Len(consumed) = 2
    /\ consumed[1] = <<" ">> \o TwoFields \o <<"\n">>
    /\ log[2].text[1] = "ERROR (dry-run): Not enough fields in line: "
    /\ WellFormed(LastLine)
    /\ Len(Actions(LineLog)) = 3

\* C9: in a live run the executed commands are determined by the lines read
\* alone, whatever status any command returned, and the loop goes on.
OutcomeNeverMatters ==
    ~dry_run =>
        /\ Executed(log) = LiveCmds(consumed)
        /\ (lastFailed # 0 \/ failedEarlier) => pc \in {"Processing", "Done"}

\* a command of the first record failed and so did the account creation of
\* the second: all seven commands of the two records were executed
OutcomeWitness ==
    /\ ~dry_run /\ Len(consumed) = 2
    /\ failedEarlier
    /\ lastFailed = 1
    /\ Len(Executed(SubSeq(log, 1, lineStart))) = 3
    /\ Len(Executed(LineLog)) = 4

\* C10 as stated: a valid record prints an announcement for each of the
\* three action groups.
ThreeAnnouncements ==
    (HasLine /\ WellFormed(LastLine)) =>
        /\ \A k \in {"create", "passwd", "group"} :
             \E i \in 1..Len(LineLog) :
                 /\ AnnKind(LineLog[i]) = k
                 /\ NamesUser(LineLog[i], TrimmedFields(LastLine)[1])
        /\ \A i \in 1..Len(LineLog) :
             IsAction(LineLog[i]) =>
                 \E j \in 1..(i - 1) :
                     AnnKind(LineLog[j]) = ActKind(ActionCmd(LineLog[i]))

\* C10 amended: a valid record prints one creation and one password
\* announcement and one group announcement per entry other than "-" (none
\* when there is none), each naming the username; every action comes after
\* the announcement of its own action group, with no other announcement in
\* between.
AnnouncementsPrecedeActions ==
    (HasLine /\ WellFormed(LastLine)) =>
        LET f    == TrimmedFields(LastLine)
            u    == f[1]
            gs   == NonDash(Split(f[5], ","))
            anns == SelectSeq(LineLog, IsAnnouncement)
        IN  /\ Len(anns) = 2 + Len(gs)
            /\ AnnKind(anns[1]) = "create"
            /\ AnnKind(anns[2]) = "passwd"
            /\ \A i \in 1..Len(anns) : NamesUser(anns[i], u)
            /\ \A i \in 3..Len(anns) :
                 anns[i].text = <<"==> Assigning ">> \o u \o <<" to the ">>
                                    \o gs[i - 2] \o <<" group...", "\n">>
            /\ \A i \in 1..Len(LineLog) :
                 IsAction(LineLog[i]) =>
                     \E j \in 1..(i - 1) :
                         /\ AnnKind(LineLog[j]) = ActKind(ActionCmd(LineLog[i]))
                         /\ \A k \in (j + 1)..(i - 1) :
                              ~IsAnnouncement(LineLog[k]) /\ ~IsAction(LineLog[k])

\* a live record with two groups: four announcements, four commands
AnnouncementsWitness ==
    /\ ~dry_run /\ HasLine
    /\ LastLine = Record(<<<<"g">>, <<"h">>>>) \o <<"\n">>
    /\ Len(SelectSeq(LineLog, IsAnnouncement)) = 4
    /\ Len(Executed(LineLog)) = 4

=============================================================================
